---- MODULE Spec2Model ----
(***************************************************************************)
(* Model of tools/compare_dacpacs.py: the comparison of two schema         *)
(* packages (rust = candidate = side a, dotnet = baseline = side b), each  *)
(* given as an archive or as an extracted directory.                       *)
(*                                                                         *)
(* Python strings are TLA+ strings; f-strings are built with \o.  None is  *)
(* the value NONE, which no attribute or text of the modelled inputs       *)
(* equals.  Python compares strings by code point: the model compares the  *)
(* sort keys atom by atom with the rank of an atom in Alphabet, which      *)
(* lists the atoms in code-point order.                                    *)
(***************************************************************************)
EXTENDS Integers, Sequences, FiniteSets, TLC

VARIABLES pc, rust_dacpac, dotnet_dacpac, tmpdir, path_a, path_b,
          dir_a, dir_b, file_results, model_results, warnings, exit_code

vars == <<pc, rust_dacpac, dotnet_dacpac, tmpdir, path_a, path_b,
          dir_a, dir_b, file_results, model_results, warnings, exit_code>>

\* The command line, and the directories the arguments were resolved to.
resolved == <<rust_dacpac, dotnet_dacpac, path_a, path_b, dir_a, dir_b>>

(***************************************************************************)
(* Strings, None, and sorting                                              *)
(***************************************************************************)
NONE == "<None>"

\* Python's truth value of an optional string.
Truthy(s) == s # NONE /\ s # ""

\* node.get(attribute, default)
AttrOr(v, default) == IF v = NONE THEN default ELSE v

\* f"{v}": None is printed as the word None.
Fmt(v) == IF v = NONE THEN "None" ELSE v

\* str.strip() on the texts of the modelled inputs.
Strip(s) == CASE s = " 1 " -> "1"
              [] s = " " -> ""
              [] OTHER -> s

\* str.rstrip() on the lines of the modelled text files.
RStrip(s) == CASE s = "x " -> "x"
               [] s = " " -> ""
               [] OTHER -> s

\* The atoms sort keys are made of, in code-point order.
Alphabet == << "", " ", "(", ")", ",", "/", "1", "2", "=", "@", "A", "B",
               "Columns", "DefiningColumn", "DefiningTable",
               "Disambiguator", "ForColumn", "None", "T", "U", "X", "Y",
               "a", "b", "c", "d", "e", "extra1.txt", "extra2.txt", "k",
               "m", "n", "p", "q", "r", "root", "s", "t", "text=", "u",
               "|" >>

Ord(a) == CHOOSE i \in 1..Len(Alphabet) : Alphabet[i] = a

\* Python's < on sequences (tuples, lists, strings as sequences of atoms).
RECURSIVE KeyLess(_, _)
KeyLess(k1, k2) ==
    IF k2 = <<>> THEN FALSE
    ELSE IF k1 = <<>> THEN TRUE
    ELSE IF Head(k1) = Head(k2) THEN KeyLess(Tail(k1), Tail(k2))
    ELSE Ord(Head(k1)) < Ord(Head(k2))

\* list.sort() / sorted(): stable, on records that carry their sort key.
RECURSIVE InsertByKey(_, _)
InsertByKey(x, s) ==
    IF s = <<>> THEN <<x>>
    ELSE IF KeyLess(x.key, Head(s).key) THEN <<x>> \o s
    ELSE <<Head(s)>> \o InsertByKey(x, Tail(s))

RECURSIVE SortByKey(_)
SortByKey(s) ==
    IF s = <<>> THEN <<>>
    ELSE InsertByKey(s[Len(s)], SortByKey(SubSeq(s, 1, Len(s) - 1)))

\* sorted(S, key=...): the elements of a set in the order of their keys.
RECURSIVE SortKeyed(_)
SortKeyed(S) ==
    IF S = {} THEN <<>>
    ELSE LET x == CHOOSE x \in S : \A y \in S : ~KeyLess(y.key, x.key)
         IN  <<x.val>> \o SortKeyed(S \ {x})

SortSet(S, K(_)) == SortKeyed({[key |-> K(x), val |-> x] : x \in S})

\* sorted(set(...)) of strings that are single atoms.
SortedAtoms(S) == SortSet(S, LAMBDA a : <<a>>)

\* sep.join(parts)
RECURSIVE Join(_, _)
Join(sep, parts) ==
    IF parts = <<>> THEN ""
    ELSE IF Len(parts) = 1 THEN parts[1]
    ELSE parts[1] \o sep \o Join(sep, Tail(parts))

Range(s) == {s[i] : i \in 1..Len(s)}

SelectIdx(s, Test(_)) == {i \in 1..Len(s) : Test(s[i])}

\* Element.find(path): the first child that matches, 0 when there is none.
FirstIdx(s, Test(_)) ==
    LET I == SelectIdx(s, Test)
    IN  IF I = {} THEN 0 ELSE CHOOSE i \in I : \A j \in I : i <= j

\* The concatenation of a sequence of sequences.
RECURSIVE Flat(_)
Flat(ss) == IF ss = <<>> THEN <<>> ELSE Head(ss) \o Flat(Tail(ss))

Map(s, F(_)) == [i \in 1..Len(s) |-> F(s[i])]

(***************************************************************************)
(* Python dicts: a sequence of <<key, value>> pairs in insertion order.    *)
(* d[k] = v replaces the value of a key already present, in place.         *)
(***************************************************************************)
DictKeys(d) == {d[i][1] : i \in 1..Len(d)}

DictHas(d, k) == k \in DictKeys(d)

DictSet(d, k, v) ==
    IF DictHas(d, k)
    THEN [i \in 1..Len(d) |-> IF d[i][1] = k THEN <<k, v>> ELSE d[i]]
    ELSE Append(d, <<k, v>>)

\* d.get(k, default)
DictGet(d, k, default) ==
    IF DictHas(d, k) THEN d[CHOOSE i \in 1..Len(d) : d[i][1] = k][2]
    ELSE default

\* d.pop(k, None)
DictPop(d, k) == SelectSeq(d, LAMBDA kv : kv[1] # k)

(***************************************************************************)
(* The model document: Element, Property, Relationship, Entry,             *)
(* AttachedAnnotation nodes as records.                                    *)
(*   Property  [Name, Value, ValueElem]: the Value attribute and the text  *)
(*             of the Value child, NONE when absent                        *)
(*   Entry     [kind, Name, ExternalSource, elem]: kind is "ref" (a        *)
(*             References child), "inline" (an Element child) or "empty"   *)
(*   Element   [Type, Name, props, rels, anns];                            *)
(*             rels is a sequence of [Name, entries], anns of [Type, props]*)
(***************************************************************************)
NoElem == [Type |-> NONE, Name |-> NONE, props |-> <<>>, rels |-> <<>>,
           anns |-> <<>>]

\* The value a Property node carries (lines 167-172, 207-211).
PropValue(prop) ==
    IF prop.Value # NONE THEN prop.Value
    ELSE IF prop.ValueElem # NONE THEN Strip(prop.ValueElem)
    ELSE NONE

RECURSIVE get_properties_from(_, _)
get_properties_from(props, acc) ==
    IF props = <<>> THEN acc
    ELSE get_properties_from(Tail(props),
             DictSet(acc, Head(props).Name, PropValue(Head(props))))

get_properties(elem) == get_properties_from(elem.props, <<>>)

\* The reference key of a References child: Name, or Name@ExternalSource.
RefKey(entry) ==
    IF Truthy(entry.ExternalSource)
    THEN AttrOr(entry.Name, "") \o "@" \o entry.ExternalSource
    ELSE AttrOr(entry.Name, "")

RefKeyAtoms(entry) ==
    IF Truthy(entry.ExternalSource)
    THEN <<AttrOr(entry.Name, ""), "@", entry.ExternalSource>>
    ELSE <<AttrOr(entry.Name, "")>>

\* str(dict) of an annotation's properties, and its atoms.
DictStr(d) ==
    "{" \o Join(", ", Map(d, LAMBDA kv :
        "'" \o kv[1] \o "': " \o
        (IF kv[2] = NONE THEN "None" ELSE "'" \o kv[2] \o "'"))) \o "}"

DictAtoms(d) == Flat(Map(d, LAMBDA kv : <<kv[1], Fmt(kv[2]), ",">>))

\* Mutant: the Disambiguator property is kept.
StripDisambiguatorKept(props) == props

\* props.pop("Disambiguator", None) (lines 237, 254).
StripDisambiguator(props) == DictPop(props, "Disambiguator")

\* A part of a fingerprint: its string, and the atoms it is sorted by.
Part(key, str) == [key |-> key, str |-> str]

\* f"P:{name}={value}" (line 212).
PropPart(name, value) ==
    Part(<<"p", name, "=", value>>, "P:" \o name \o "=" \o value)

\* f"R:{rel_name}={ref_name}" (line 225).
RefPart(rel_name, entry) ==
    Part(<<"r", rel_name, "=">> \o RefKeyAtoms(entry),
         "R:" \o rel_name \o "=" \o RefKey(entry))

\* f"R:{rel_name}=({inline_element_fingerprint(inner)})" (line 229).
InlinePart(rel_name, inner) ==
    Part(<<"r", rel_name, "=", "(">> \o inner.key \o <<")">>,
         "R:" \o rel_name \o "=(" \o inner.str \o ")")

\* f"A:{ann_type}={ann_props}" (line 238).
AnnPart(ann_type, ann_props) ==
    Part(<<"a", ann_type, "=">> \o DictAtoms(ann_props),
         "A:" \o ann_type \o "=" \o DictStr(ann_props))

\* "|".join([type_part] + prop_parts + rel_parts + ann_parts) (line 240).
JoinParts(type_part, parts) ==
    Part(<<type_part>> \o Flat(Map(parts, LAMBDA x : <<"|">> \o x.key)),
         Join("|", <<type_part>> \o Map(parts, LAMBDA x : x.str)))

\* The fingerprint of an inline element, with the atoms it is sorted by when
\* it is a part of an enclosing fingerprint.
RECURSIVE Fingerprint(_)
EntryParts(rel) ==
    Flat(Map(rel.entries, LAMBDA entry :
        IF entry.kind = "ref" THEN <<RefPart(Fmt(rel.Name), entry)>>
        ELSE IF entry.kind = "inline"
        THEN <<InlinePart(Fmt(rel.Name), Fingerprint(entry.elem))>>
        ELSE <<>>))

Fingerprint(elem) ==
    JoinParts(AttrOr(elem.Type, ""),
        SortByKey(Map(elem.props, LAMBDA prop :
            PropPart(Fmt(prop.Name), Fmt(PropValue(prop)))))
        \o SortByKey(Flat(Map(elem.rels, EntryParts)))
        \o SortByKey(Map(elem.anns, LAMBDA ann :
            AnnPart(AttrOr(ann.Type, ""),
                    StripDisambiguator(get_properties(ann))))))

inline_element_fingerprint(elem) == Fingerprint(elem).str

\* One relationship's entries: ("ref", key) and ("inline", fingerprint);
\* an Entry with neither child adds nothing.
RelEntries(rel) ==
    Flat(Map(rel.entries, LAMBDA entry :
        IF entry.kind = "ref" THEN << <<"ref", RefKey(entry)>> >>
        ELSE IF entry.kind = "inline"
        THEN << <<"inline", inline_element_fingerprint(entry.elem)>> >>
        ELSE <<>>))

RECURSIVE get_relationships_from(_, _)
get_relationships_from(rels, acc) ==
    IF rels = <<>> THEN acc
    ELSE get_relationships_from(Tail(rels),
             DictSet(acc, Head(rels).Name, RelEntries(Head(rels))))

get_relationships(elem) == get_relationships_from(elem.rels, <<>>)

\* sorted(props.items())
SortedItems(d) ==
    Map(SortByKey(Map(d, LAMBDA kv : [key |-> <<kv[1], kv[2]>>, val |-> kv])),
        LAMBDA x : x.val)

\* (ann_type, sorted(props.items())) with the atoms it is sorted by.
AnnTuple(ann_type, items) ==
    [key |-> <<ann_type>> \o Flat(items), val |-> <<ann_type, items>>]

\* The sorted list of (type, sorted property items), Disambiguator removed.
get_annotations(elem) ==
    Map(SortByKey(Map(elem.anns, LAMBDA ann :
            AnnTuple(AttrOr(ann.Type, ""),
                     SortedItems(StripDisambiguator(get_properties(ann)))))),
        LAMBDA x : x.val)

\* str(e) of a relationship entry tuple.
EntryStr(e) == "('" \o e[1] \o "', '" \o e[2] \o "')"

\* str(a) of an annotation tuple.
AnnStr(a) ==
    "('" \o a[1] \o "', [" \o
    Join(", ", Map(a[2], LAMBDA kv :
        "('" \o kv[1] \o "', " \o
        (IF kv[2] = NONE THEN "None" ELSE "'" \o kv[2] \o "'") \o ")"))
    \o "])"

(***************************************************************************)
(* diff_element: the list of difference entries of two elements.  An entry *)
(* is the record of what its report line states:                           *)
(*   Property      tag "missing in dotnet" (rust value), "missing in rust" *)
(*                 (dotnet value) or "changed" (both values)               *)
(*   Relationship  tag "missing in dotnet" (n_rust entries), "missing in   *)
(*                 rust" (n_dotnet entries) or "entries" (n_dotnet only in *)
(*                 dotnet, n_rust only in rust)                            *)
(*   Annotation    tag "differs"; counts is TRUE when the line ends with   *)
(*                 (rust=n_rust, dotnet=n_dotnet)                          *)
(***************************************************************************)
DiffEntry(phase, name, tag, rust, dotnet, n_rust, n_dotnet, counts) ==
    [phase |-> phase, name |-> name, tag |-> tag, rust |-> rust,
     dotnet |-> dotnet, n_rust |-> n_rust, n_dotnet |-> n_dotnet,
     counts |-> counts]

\* Lines 268-277: the entry of one property name, if any.
PropDiff(name, val_a, val_b, in_a, in_b) ==
    IF val_a # val_b
    THEN IF ~in_b
         THEN <<DiffEntry("Property", name, "missing in dotnet",
                          val_a, NONE, 0, 0, FALSE)>>
         ELSE IF ~in_a
         THEN <<DiffEntry("Property", name, "missing in rust",
                          NONE, val_b, 0, 0, FALSE)>>
         ELSE <<DiffEntry("Property", name, "changed",
                          val_a, val_b, 0, 0, FALSE)>>
    ELSE <<>>

\* Lines 264-277.
PropDiffs(props_a, props_b) ==
    Flat(Map(SortedAtoms(DictKeys(props_a) \cup DictKeys(props_b)),
             LAMBDA name :
                PropDiff(name, DictGet(props_a, name, NONE),
                         DictGet(props_b, name, NONE),
                         DictHas(props_a, name), DictHas(props_b, name))))

diff_properties(elem_a, elem_b) ==
    PropDiffs(get_properties(elem_a), get_properties(elem_b))

\* set(str(e) for e in entries)
EntryStrs(entries) == {EntryStr(e) : e \in Range(entries)}

\* Lines 292-298: the entry of a relationship both sides have, if any.
EntriesDiff(name, only_rust, only_dotnet) ==
    IF only_rust # {} \/ only_dotnet # {}
    THEN <<DiffEntry("Relationship", name, "entries", NONE, NONE,
                     Cardinality(only_rust), Cardinality(only_dotnet), FALSE)>>
    ELSE <<>>

\* Lines 284-298: the entry of one relationship name, if any.
RelDiff(name, entries_a, entries_b, in_a, in_b) ==
    IF entries_a # entries_b
    THEN IF ~in_b
         THEN <<DiffEntry("Relationship", name, "missing in dotnet", NONE, NONE,
                          Len(entries_a), 0, FALSE)>>
         ELSE IF ~in_a
         THEN <<DiffEntry("Relationship", name, "missing in rust", NONE, NONE,
                          0, Len(entries_b), FALSE)>>
         ELSE EntriesDiff(name, EntryStrs(entries_a) \ EntryStrs(entries_b),
                          EntryStrs(entries_b) \ EntryStrs(entries_a))
    ELSE <<>>

\* Lines 279-298.
RelDiffs(rels_a, rels_b) ==
    Flat(Map(SortedAtoms(DictKeys(rels_a) \cup DictKeys(rels_b)),
             LAMBDA name :
                RelDiff(name, DictGet(rels_a, name, <<>>),
                        DictGet(rels_b, name, <<>>),
                        DictHas(rels_a, name), DictHas(rels_b, name))))

diff_relationships(elem_a, elem_b) ==
    RelDiffs(get_relationships(elem_a), get_relationships(elem_b))

\* set(str(a) for a in anns)
AnnStrs(anns) == {AnnStr(a) : a \in Range(anns)}

\* Lines 314-320: the entry of one annotation type, if any.
AnnDiff(ann_type, rust_of_type, dotnet_of_type) ==
    IF rust_of_type # dotnet_of_type
    THEN <<DiffEntry("Annotation", ann_type, "differs", NONE, NONE,
                     Len(rust_of_type), Len(dotnet_of_type),
                     Len(rust_of_type) # Len(dotnet_of_type))>>
    ELSE <<>>

\* Lines 303-320.
AnnDiffs(anns_a, anns_b, only_rust, only_dotnet) ==
    IF anns_a # anns_b /\ (only_rust # {} \/ only_dotnet # {})
    THEN Flat(Map(SortedAtoms({a[1] : a \in Range(anns_a \o anns_b)}),
             LAMBDA ann_type :
                AnnDiff(ann_type,
                        SelectSeq(anns_a, LAMBDA a : a[1] = ann_type),
                        SelectSeq(anns_b, LAMBDA a : a[1] = ann_type))))
    ELSE <<>>

\* Lines 300-320.
AnnListDiffs(anns_a, anns_b) ==
    AnnDiffs(anns_a, anns_b, AnnStrs(anns_a) \ AnnStrs(anns_b),
             AnnStrs(anns_b) \ AnnStrs(anns_a))

diff_annotations(elem_a, elem_b) ==
    AnnListDiffs(get_annotations(elem_a), get_annotations(elem_b))

diff_element(elem_a, elem_b) ==
    diff_properties(elem_a, elem_b) \o diff_relationships(elem_a, elem_b)
        \o diff_annotations(elem_a, elem_b)

(***************************************************************************)
(* element_key: a key is <<type, discriminator>> or <<type>>.              *)
(***************************************************************************)
\* The Name of the first References of the first Entry of a Relationship;
\* NONE when any of them is missing.
FirstRefName(rel) ==
    IF rel.entries = <<>> THEN NONE
    ELSE IF rel.entries[1].kind = "ref" THEN rel.entries[1].Name
    ELSE NONE

\* The first Relationship called rel_name is the one looked into.
RefNameAt(rels, r) == IF r = 0 THEN NONE ELSE FirstRefName(rels[r])

get_ref_name(elem, rel_name) ==
    RefNameAt(elem.rels, FirstIdx(elem.rels, LAMBDA rel : rel.Name = rel_name))

\* Mutant: DefiningColumn is tried before ForColumn.
KeyOfColumnFirst(elem_type, name, defining_table, for_column, defining_column) ==
    IF name # NONE THEN <<elem_type, name>>
    ELSE IF Truthy(defining_table) /\ Truthy(defining_column)
    THEN <<elem_type, "DefiningTable=" \o defining_table
                      \o ",DefiningColumn=" \o defining_column>>
    ELSE IF Truthy(defining_table) /\ Truthy(for_column)
    THEN <<elem_type, "DefiningTable=" \o defining_table
                      \o ",ForColumn=" \o for_column>>
    ELSE IF Truthy(defining_table)
    THEN <<elem_type, "DefiningTable=" \o defining_table>>
    ELSE <<elem_type>>

\* Lines 136-152.
KeyOf(elem_type, name, defining_table, for_column, defining_column) ==
    IF name # NONE THEN <<elem_type, name>>
    ELSE IF Truthy(defining_table) /\ Truthy(for_column)
    THEN <<elem_type, "DefiningTable=" \o defining_table
                      \o ",ForColumn=" \o for_column>>
    ELSE IF Truthy(defining_table) /\ Truthy(defining_column)
    THEN <<elem_type, "DefiningTable=" \o defining_table
                      \o ",DefiningColumn=" \o defining_column>>
    ELSE IF Truthy(defining_table)
    THEN <<elem_type, "DefiningTable=" \o defining_table>>
    ELSE <<elem_type>>

element_key(elem) ==
    KeyOf(elem.Type, elem.Name, get_ref_name(elem, "DefiningTable"),
          get_ref_name(elem, "ForColumn"),
          get_ref_name(elem, "DefiningColumn"))

element_display_key(key) ==
    IF Len(key) = 1 THEN key[1] ELSE key[1] \o " " \o key[2]

\* The atoms of element_display_key(key), which the key lists of the report
\* are sorted by.
DisplayAtoms(elem_type, name, defining_table, for_column, defining_column) ==
    IF name # NONE THEN <<elem_type, " ", name>>
    ELSE IF Truthy(defining_table) /\ Truthy(for_column)
    THEN <<elem_type, " ", "DefiningTable", "=", defining_table, ",",
           "ForColumn", "=", for_column>>
    ELSE IF Truthy(defining_table) /\ Truthy(defining_column)
    THEN <<elem_type, " ", "DefiningTable", "=", defining_table, ",",
           "DefiningColumn", "=", defining_column>>
    ELSE IF Truthy(defining_table)
    THEN <<elem_type, " ", "DefiningTable", "=", defining_table>>
    ELSE <<elem_type>>

display_key_atoms(elem) ==
    DisplayAtoms(elem.Type, elem.Name, get_ref_name(elem, "DefiningTable"),
                 get_ref_name(elem, "ForColumn"),
                 get_ref_name(elem, "DefiningColumn"))

(***************************************************************************)
(* compare_header.  A header is [present, blocks]; a block (CustomData) is *)
(* [Category, Type, metas], metas a sequence of [Name, Value].             *)
(***************************************************************************)
\* dict == dict: the same keys with the same values, in any order.
DictEq(d1, d2) ==
    /\ DictKeys(d1) = DictKeys(d2)
    /\ \A k \in DictKeys(d1) : DictGet(d1, k, NONE) = DictGet(d2, k, NONE)

RECURSIVE metas_from(_, _)
metas_from(ms, acc) ==
    IF ms = <<>> THEN acc
    ELSE metas_from(Tail(ms), DictSet(acc, AttrOr(Head(ms).Name, ""),
                                      AttrOr(Head(ms).Value, "")))

RECURSIVE index_custom_data_from(_, _)
index_custom_data_from(blocks, acc) ==
    IF blocks = <<>> THEN acc
    ELSE index_custom_data_from(Tail(blocks),
             DictSet(acc, <<AttrOr(Head(blocks).Category, ""),
                            AttrOr(Head(blocks).Type, "")>>,
                     metas_from(Head(blocks).metas, <<>>)))

index_custom_data(header) ==
    IF ~header.present THEN <<>>
    ELSE index_custom_data_from(header.blocks, <<>>)

\* A line of the header report: tag is "missing in dotnet", "missing in rust",
\* "block" (the label line of a block whose metadata differs) or "meta" (one
\* metadata name, with both values).
HeaderLine(key, tag, name, rust, dotnet) ==
    [key |-> key, tag |-> tag, name |-> name, rust |-> rust, dotnet |-> dotnet]

\* Lines 356-358: the line of one metadata name, if its values differ.
MetaDiff(key, mk, va, vb) ==
    IF va # vb THEN <<HeaderLine(key, "meta", mk, va, vb)>> ELSE <<>>

\* Lines 353-358: the label line, and one line per differing name.
MetaDiffs(key, ma, mb) ==
    <<HeaderLine(key, "block", NONE, NONE, NONE)>>
    \o Flat(Map(SortedAtoms(DictKeys(ma) \cup DictKeys(mb)), LAMBDA mk :
            MetaDiff(key, mk, DictGet(ma, mk, NONE), DictGet(mb, mk, NONE))))

\* Lines 346-358: the lines of one (category, type).
BlockDiff(key, ma, mb, in_a, in_b) ==
    IF ~in_b
    THEN <<HeaderLine(key, "missing in dotnet", NONE, NONE, NONE)>>
    ELSE IF ~in_a
    THEN <<HeaderLine(key, "missing in rust", NONE, NONE, NONE)>>
    ELSE IF ~DictEq(ma, mb) THEN MetaDiffs(key, ma, mb)
    ELSE <<>>

\* Lines 342-358.
HeaderDiffs(cd_a, cd_b) ==
    Flat(Map(SortSet(DictKeys(cd_a) \cup DictKeys(cd_b), LAMBDA k : k),
             LAMBDA key :
                BlockDiff(key, DictGet(cd_a, key, <<>>),
                          DictGet(cd_b, key, <<>>),
                          DictHas(cd_a, key), DictHas(cd_b, key))))

\* Lines 360-362.
HeaderResult(diffs) ==
    IF diffs = <<>> THEN [status |-> "ok", lines |-> <<>>]
    ELSE [status |-> "different", lines |-> diffs]

compare_header(header_a, header_b) ==
    HeaderResult(HeaderDiffs(index_custom_data(header_a),
                             index_custom_data(header_b)))

(***************************************************************************)
(* compare_model_xml.  A model document is [header, elements].             *)
(***************************************************************************)
\* Mutant: the first element of a key is the one kept.
IndexFirst(acc, key, elem) ==
    [index |-> IF DictHas(acc.index, key) THEN acc.index
               ELSE DictSet(acc.index, key, elem),
     duplicates |-> IF DictHas(acc.index, key)
                    THEN Append(acc.duplicates, key)
                    ELSE acc.duplicates]

\* Lines 388-391: index[key] = elem; a key seen before is also appended to
\* duplicates.
IndexOne(acc, key, elem) ==
    [index |-> DictSet(acc.index, key, elem),
     duplicates |-> IF DictHas(acc.index, key)
                    THEN Append(acc.duplicates, key)
                    ELSE acc.duplicates]

\* Lines 386-391, for every element in document order.
RECURSIVE index_elements_from(_, _)
index_elements_from(elements, acc) ==
    IF elements = <<>> THEN acc
    ELSE index_elements_from(Tail(elements),
             IndexOne(acc, element_key(Head(elements)), Head(elements)))

index_elements(elements) ==
    index_elements_from(elements, [index |-> <<>>, duplicates |-> <<>>])

\* sorted(keys, key=lambda k: element_display_key(k))
SortedKeys(keys, elems) ==
    SortSet(keys, LAMBDA k : display_key_atoms(DictGet(elems, k, NoElem)))

\* Lines 414-418: the common keys whose elements differ, with their entries.
Differences(common, elems_a, elems_b) ==
    SelectSeq(Map(common, LAMBDA key :
                [key |-> key,
                 diffs |-> diff_element(DictGet(elems_a, key, NoElem),
                                        DictGet(elems_b, key, NoElem))]),
              LAMBDA d : d.diffs # <<>>)

\* Lines 406-426.
ElementResults(elems_a, elems_b) ==
    [missing_in_rust |->
         SortedKeys(DictKeys(elems_b) \ DictKeys(elems_a), elems_b),
     extra_in_rust |->
         SortedKeys(DictKeys(elems_a) \ DictKeys(elems_b), elems_a),
     differences |->
         Differences(SortedKeys(DictKeys(elems_a) \cap DictKeys(elems_b),
                                elems_a),
                     elems_a, elems_b),
     total_rust |-> Len(elems_a),
     total_dotnet |-> Len(elems_b)]

\* The results of compare_model_xml, with the duplicate keys it warns of.
ModelResults(ia, ib, header_result) ==
    [present |-> TRUE,
     header |-> header_result,
     elements |-> ElementResults(ia.index, ib.index),
     dupes_a |-> ia.duplicates,
     dupes_b |-> ib.duplicates]

compare_model_xml(doc_a, doc_b) ==
    ModelResults(index_elements(doc_a.elements), index_elements(doc_b.elements),
                 compare_header(doc_a.header, doc_b.header))

(***************************************************************************)
(* Simple XML files.  A node is [tag, attrs, text, children]: attrs a      *)
(* sequence of <<name, value>>, text NONE when the node has none.          *)
(***************************************************************************)
\* strip_ns on the tags of the modelled inputs.
strip_ns(tag) == CASE tag = "{NS}a" -> "a"
                   [] OTHER -> tag

\* "|".join(parts) of a node, and the atoms children are sorted by.
Canonical(tag, attribs, text) ==
    [str |-> Join("|", <<tag>>
                 \o Map(attribs, LAMBDA kv : kv[1] \o "=" \o kv[2])
                 \o (IF text # "" THEN <<"text=" \o text>> ELSE <<>>)),
     key |-> <<tag>>
                 \o Flat(Map(attribs, LAMBDA kv : <<"|", kv[1], "=", kv[2]>>))
                 \o (IF text # "" THEN <<"|", "text=", text>> ELSE <<>>)]

xml_to_canonical(elem) ==
    Canonical(strip_ns(elem.tag), SortedItems(elem.attrs),
              Strip(AttrOr(elem.text, "")))

\* sorted(elem, key=lambda c: xml_to_canonical(c))
SortedChildren(elem) ==
    Map(SortByKey(Map(elem.children, LAMBDA c :
            [key |-> xml_to_canonical(c).key, val |-> c])),
        LAMBDA x : x.val)

RECURSIVE flatten(_, _)
FlattenAt(elem, current) ==
    << <<current, xml_to_canonical(elem).str>> >>
    \o Flat(Map(SortedChildren(elem), LAMBDA child : flatten(child, current)))

flatten(elem, path) == FlattenAt(elem, path \o "/" \o strip_ns(elem.tag))

(***************************************************************************)
(* An extracted package (a directory): [files, xml, text, origin, model,   *)
(* parses].  files is the set of the names of the files present; xml,      *)
(* text, origin and model hold the content of each file (read only when it *)
(* is present); parses tells whether model.xml is well-formed XML.         *)
(***************************************************************************)
XmlFiles == {"DacMetadata.xml", "[Content_Types].xml"}
TextFiles == {"predeploy.sql", "postdeploy.sql"}
UnknownFiles == {"extra1.txt", "extra2.txt"}
known_files == {"Origin.xml", "DacMetadata.xml", "[Content_Types].xml",
                "predeploy.sql", "postdeploy.sql", "model.xml"}
AllFiles == known_files \cup UnknownFiles

\* os.path.exists(os.path.join(dir, fname))
Exists(dir, fname) == fname \in dir.files

list_files(dir) == dir.files

\* The status compare_simple_xml returns (NONE: neither file exists).
compare_simple_xml(a, b, fname) ==
    IF ~Exists(a, fname) /\ ~Exists(b, fname) THEN NONE
    ELSE IF ~Exists(a, fname) THEN "missing_in_rust"
    ELSE IF ~Exists(b, fname) THEN "missing_in_dotnet"
    ELSE IF flatten(a.xml[fname], "") = flatten(b.xml[fname], "") THEN "ok"
    ELSE "different"

\* The status compare_text_files returns (NONE: neither file exists).
compare_text_files(a, b, fname) ==
    IF ~Exists(a, fname) /\ ~Exists(b, fname) THEN NONE
    ELSE IF ~Exists(a, fname) THEN "missing_in_rust"
    ELSE IF ~Exists(b, fname) THEN "missing_in_dotnet"
    ELSE IF Map(a.text[fname], RStrip) = Map(b.text[fname], RStrip) THEN "ok"
    ELSE "different"

(***************************************************************************)
(* The arguments and the temporary workspace.  An argument is              *)
(* [kind, path, content]: path is <<directory, file name>>; kind "dir" is  *)
(* an extracted directory, "archive" a package archive, "bad" a file that  *)
(* is no ZIP archive; content is the package the directory or the archive  *)
(* holds.  tmpdir is the directory of tempfile.TemporaryDirectory():       *)
(* exists while the with block of main runs, dirs maps the name of each of *)
(* its subdirectories to the package extracted there.                      *)
(***************************************************************************)
NewTmpdir == [exists |-> TRUE, dirs |-> <<>>]

\* TemporaryDirectory.__exit__: the directory and all it holds are removed.
Released == [exists |-> FALSE, dirs |-> <<>>]

isdir(arg) == arg.kind = "dir"

\* zipfile.ZipFile(path) opens the file (line 32); it raises otherwise.
IsZip(arg) == arg.kind = "archive"

basename(path) == path[2]

\* os.path.join(tmpdir, os.path.basename(path)), line 31.
extract_to(arg) == <<"tmpdir", basename(arg.path)>>

\* z.extractall(extract_to) into a directory that exists: the files of the
\* archive replace the files of the same name, the other files stay.
ExtractAll(old, new) ==
    [files |-> old.files \cup new.files,
     xml |-> [f \in DOMAIN new.xml |->
                 IF f \in new.files THEN new.xml[f] ELSE old.xml[f]],
     text |-> [f \in DOMAIN new.text |->
                  IF f \in new.files THEN new.text[f] ELSE old.text[f]],
     origin |-> IF "Origin.xml" \in new.files THEN new.origin
                ELSE old.origin,
     model |-> IF "model.xml" \in new.files THEN new.model ELSE old.model,
     parses |-> IF "model.xml" \in new.files THEN new.parses
                ELSE old.parses]

\* What extract_to holds after z.extractall(extract_to).
Extracted(tmp, name, content) ==
    IF name \in DOMAIN tmp.dirs THEN ExtractAll(tmp.dirs[name], content)
    ELSE content

\* extract_dacpac(path, tmpdir): the workspace after the extraction.
extract_dacpac(arg, tmp) ==
    [tmp EXCEPT !.dirs =
        (basename(arg.path) :> Extracted(tmp, basename(arg.path), arg.content))
            @@ tmp.dirs]

\* The package the comparison reads in the directory arg was resolved to.
DirAt(arg, tmp) ==
    IF isdir(arg) THEN arg.content ELSE tmp.dirs[basename(arg.path)]

\* An exception leaves the with block: the workspace is removed, the
\* traceback is printed and the interpreter exits with status 1.
Abort ==
    /\ pc' = "aborted"
    /\ exit_code' = 1
    /\ tmpdir' = Released

\* Lines 508-511.
ResolveRust ==
    /\ pc = "resolve_rust"
    /\ IF isdir(rust_dacpac)
       THEN /\ path_a' = rust_dacpac.path
            /\ pc' = "resolve_dotnet"
            /\ UNCHANGED <<tmpdir, exit_code>>
       ELSE IF IsZip(rust_dacpac)
       THEN /\ path_a' = extract_to(rust_dacpac)
            /\ tmpdir' = extract_dacpac(rust_dacpac, tmpdir)
            /\ pc' = "resolve_dotnet"
            /\ UNCHANGED exit_code
       ELSE /\ Abort
            /\ UNCHANGED path_a
    /\ UNCHANGED <<rust_dacpac, dotnet_dacpac, path_b, dir_a, dir_b,
                   file_results, model_results, warnings>>

\* Lines 513-516.  dir_a and dir_b are the packages the two directories hold
\* from here on: nothing writes to them after the second extraction.
ResolveDotnet ==
    /\ pc = "resolve_dotnet"
    /\ IF isdir(dotnet_dacpac)
       THEN /\ path_b' = dotnet_dacpac.path
            /\ pc' = "files"
            /\ UNCHANGED <<tmpdir, exit_code>>
       ELSE IF IsZip(dotnet_dacpac)
       THEN /\ path_b' = extract_to(dotnet_dacpac)
            /\ tmpdir' = extract_dacpac(dotnet_dacpac, tmpdir)
            /\ pc' = "files"
            /\ UNCHANGED exit_code
       ELSE /\ Abort
            /\ UNCHANGED path_b
    /\ IF pc' = "files"
       THEN /\ dir_a' = DirAt(rust_dacpac, tmpdir')
            /\ dir_b' = DirAt(dotnet_dacpac, tmpdir')
       ELSE UNCHANGED <<dir_a, dir_b>>
    /\ UNCHANGED <<rust_dacpac, dotnet_dacpac, path_a,
                   file_results, model_results, warnings>>

(***************************************************************************)
(* main, from the two resolved directories on.  file_results is the dict   *)
(* label -> status (the diff lines of a file are only printed).            *)
(***************************************************************************)
NoModelResults ==
    [present |-> FALSE,
     header |-> [status |-> "ok", lines |-> <<>>],
     elements |-> [missing_in_rust |-> <<>>, extra_in_rust |-> <<>>,
                   differences |-> <<>>, total_rust |-> 0,
                   total_dotnet |-> 0]]

NoWarnings == [rust |-> <<>>, dotnet |-> <<>>]

\* file_results[label] = status, unless the comparison returned None.
AddResult(results, label, status) ==
    IF status # NONE THEN DictSet(results, label, status) ELSE results

\* Lines 563-571: an unexpected file of both sides is recorded when it differs.
RECURSIVE CompareUnknownBoth(_, _, _, _)
RecordDiffering(results, fname, status) ==
    IF status # NONE /\ status # "ok" THEN DictSet(results, fname, status)
    ELSE results

CompareUnknownBoth(results, fnames, a, b) ==
    IF fnames = <<>> THEN results
    ELSE CompareUnknownBoth(
             RecordDiffering(results, Head(fnames),
                             compare_text_files(a, b, Head(fnames))),
             Tail(fnames), a, b)

\* Lines 518-542: Origin.xml is skipped; the simple XML and the text files.
CompareKnownFiles ==
    /\ pc = "files"
    /\ file_results' =
         AddResult(AddResult(AddResult(AddResult(
             << <<"Origin.xml", "ok">> >>,
             "DacMetadata.xml",
                 compare_simple_xml(dir_a, dir_b, "DacMetadata.xml")),
             "[Content_Types].xml",
                 compare_simple_xml(dir_a, dir_b, "[Content_Types].xml")),
             "predeploy.sql",
                 compare_text_files(dir_a, dir_b, "predeploy.sql")),
             "postdeploy.sql",
                 compare_text_files(dir_a, dir_b, "postdeploy.sql"))
    /\ pc' = "unexpected"
    /\ UNCHANGED <<resolved, tmpdir, model_results, warnings, exit_code>>

\* Lines 552-556: the unexpected files of the rust side only.
AddOnlyRust(results, unknown_only_rust) ==
    IF unknown_only_rust # {}
    THEN DictSet(results, "(unexpected files)", "different")
    ELSE results

\* Lines 557-562: the unexpected files of the dotnet side only.
AddOnlyDotnet(results, unknown_only_dotnet) ==
    IF unknown_only_dotnet # {}
    THEN DictSet(results,
                 IF ~DictHas(results, "(unexpected files)")
                 THEN "(unexpected files)"
                 ELSE "(unexpected files in dotnet)",
                 "different")
    ELSE results

\* Lines 544-571: files outside the known set.
CheckUnexpectedFiles ==
    /\ pc = "unexpected"
    /\ file_results' =
         CompareUnknownBoth(
             AddOnlyDotnet(
                 AddOnlyRust(file_results,
                     (list_files(dir_a) \ list_files(dir_b)) \ known_files),
                 (list_files(dir_b) \ list_files(dir_a)) \ known_files),
             SortedAtoms((list_files(dir_a) \cap list_files(dir_b))
                             \ known_files),
             dir_a, dir_b)
    /\ pc' = "model"
    /\ UNCHANGED <<resolved, tmpdir, model_results, warnings, exit_code>>

\* ET.parse (lines 369-370) raises on a document that is not well formed.
ParseError ==
    /\ Exists(dir_a, "model.xml")
    /\ Exists(dir_b, "model.xml")
    /\ ~(dir_a.parses /\ dir_b.parses)

\* Lines 573-582 (and the warnings of lines 397-404).
CompareModel ==
    /\ pc = "model"
    /\ ~ParseError
    /\ IF Exists(dir_a, "model.xml") /\ Exists(dir_b, "model.xml")
       THEN \E r \in {compare_model_xml(dir_a.model, dir_b.model)} :
                /\ model_results' = [present |-> TRUE, header |-> r.header,
                                     elements |-> r.elements]
                /\ warnings' = [rust |-> r.dupes_a, dotnet |-> r.dupes_b]
                /\ UNCHANGED file_results
       ELSE /\ UNCHANGED <<model_results, warnings>>
            /\ IF ~Exists(dir_a, "model.xml")
               THEN file_results' =
                        DictSet(file_results, "model.xml", "missing_in_rust")
               ELSE file_results' =
                        DictSet(file_results, "model.xml", "missing_in_dotnet")
    /\ pc' = "report"
    /\ UNCHANGED <<resolved, tmpdir, exit_code>>

\* Line 577, when compare_model_xml raises.
AbortModel ==
    /\ pc = "model"
    /\ ParseError
    /\ Abort
    /\ UNCHANGED <<resolved, file_results, model_results, warnings>>

\* Lines 586-598.
has_diffs ==
    \/ \E i \in 1..Len(file_results) :
          /\ file_results[i][1] # "Origin.xml"
          /\ file_results[i][2] \notin {"ok", NONE}
    \/ /\ model_results.present
       /\ \/ model_results.header.status # "ok"
          \/ model_results.elements.missing_in_rust # <<>>
          \/ model_results.elements.extra_in_rust # <<>>
          \/ model_results.elements.differences # <<>>

\* Lines 584-600: the report is printed and the run exits; sys.exit leaves
\* the with block of line 506, which removes the workspace.
Exit ==
    /\ pc = "report"
    /\ exit_code' = IF has_diffs THEN 1 ELSE 0
    /\ pc' = "done"
    /\ tmpdir' = Released
    /\ UNCHANGED <<resolved, file_results, model_results, warnings>>

(***************************************************************************)
(* Inputs.  The bounds, the nodes the inputs are built of, and the         *)
(* families of package pairs the run is started on.                        *)
(***************************************************************************)
MaxPresenceDiff == 2
MaxChildren == 2
MaxProps == 2
MaxEntries == 3
MaxAnns == 2
MaxElements == 2
MaxBlocks == 2
MaxLines == 2

\* The sequences over S of length at most n.
SeqsUpTo(S, n) == UNION {[1..k -> S] : k \in 0..n}

Prop(name, value) == [Name |-> name, Value |-> value, ValueElem |-> NONE]
PropElem(name, text) == [Name |-> name, Value |-> NONE, ValueElem |-> text]
Ref(name) ==
    [kind |-> "ref", Name |-> name, ExternalSource |-> NONE, elem |-> NoElem]
RefExt(name, ext) ==
    [kind |-> "ref", Name |-> name, ExternalSource |-> ext, elem |-> NoElem]
Inline(e) ==
    [kind |-> "inline", Name |-> NONE, ExternalSource |-> NONE, elem |-> e]
EmptyEntry ==
    [kind |-> "empty", Name |-> NONE, ExternalSource |-> NONE, elem |-> NoElem]
Rel(name, entries) == [Name |-> name, entries |-> entries]
Ann(type, props) == [Type |-> type, props |-> props]
Elem(type, name, props, rels, anns) ==
    [Type |-> type, Name |-> name, props |-> props, rels |-> rels,
     anns |-> anns]
Block(category, type, metas) ==
    [Category |-> category, Type |-> type, metas |-> metas]
Meta(name, value) == [Name |-> name, Value |-> value]
Header(blocks) == [present |-> TRUE, blocks |-> blocks]
NoHeader == [present |-> FALSE, blocks |-> <<>>]
Node(tag, attrs, text, children) ==
    [tag |-> tag, attrs |-> attrs, text |-> text, children |-> children]
Doc(header, elements) == [header |-> header, elements |-> elements]

Tree0 == Node("root", <<>>, NONE, <<Node("a", <<>>, NONE, <<>>)>>)
Tree1 == Node("root", <<>>, NONE, <<Node("b", <<>>, NONE, <<>>)>>)
Lines0 == <<"x", "y">>
Lines1 == <<"x", "y", "y">>
Elem0 == Elem("T", "n", <<Prop("p", "1")>>, <<>>, <<>>)
Elem1 == Elem("T", "n", <<Prop("p", "2")>>, <<>>, <<>>)
Doc0 == Doc(Header(<<>>), <<Elem0>>)
Doc1 == Doc(Header(<<>>), <<Elem1>>)

\* The package every family varies.
BaseDir ==
    [files |-> known_files,
     xml |-> [f \in XmlFiles |-> Tree0],
     text |-> [f \in TextFiles \cup UnknownFiles |-> Lines0],
     origin |-> "o1",
     model |-> Doc0,
     parses |-> TRUE]

\* dir with the content of file f replaced by another content.
Changed(dir, f) ==
    IF f \in XmlFiles THEN [dir EXCEPT !.xml[f] = Tree1]
    ELSE IF f \in TextFiles \cup UnknownFiles THEN [dir EXCEPT !.text[f] = Lines1]
    ELSE IF f = "Origin.xml" THEN [dir EXCEPT !.origin = "o2"]
    ELSE IF f = "model.xml" THEN [dir EXCEPT !.model = Doc1]
    ELSE dir

Arg(kind, parent, name, content) ==
    [kind |-> kind, path |-> <<parent, name>>, content |-> content]

\* No directory: dir_a and dir_b before the arguments are resolved.
NoDir == [BaseDir EXCEPT !.files = {}]

\* The state on entry of the with block of main, line 506.
StartArgs(a, b) ==
    /\ pc = "resolve_rust"
    /\ rust_dacpac = a
    /\ dotnet_dacpac = b
    /\ tmpdir = NewTmpdir
    /\ path_a = <<>>
    /\ path_b = <<>>
    /\ dir_a = NoDir
    /\ dir_b = NoDir
    /\ file_results = <<>>
    /\ model_results = NoModelResults
    /\ warnings = NoWarnings
    /\ exit_code = -1

\* The run on two extracted directories.
Start(a, b) == StartArgs(Arg("dir", "x", "a", a), Arg("dir", "y", "b", b))

\* A run on archives and directories: the dotnet argument lies in the
\* directory of the rust argument or in another one, under the same file
\* name or another one.  One path names one file or directory.
ArchiveContents ==
    {BaseDir,
     Changed(BaseDir, "model.xml"),
     [BaseDir EXCEPT !.files = {"model.xml"}],
     [Changed(BaseDir, "predeploy.sql") EXCEPT
         !.files = {"model.xml", "predeploy.sql"}],
     [BaseDir EXCEPT !.parses = FALSE]}

InitArchives ==
    \E ka, kb \in {"dir", "archive", "bad"} :
    \E parent \in {"x", "y"} :
    \E name \in {"out.dacpac", "other.dacpac"} :
    \E ca, cb \in ArchiveContents :
        /\ (parent = "x" /\ name = "out.dacpac") => (ka = kb /\ ca = cb)
        /\ StartArgs(Arg(ka, "x", "out.dacpac", ca), Arg(kb, parent, name, cb))

\* Any set of files on the rust side; the dotnet side differs in the presence
\* of at most MaxPresenceDiff files and in the content of at most one.
InitPackages ==
    \E fa \in SUBSET AllFiles :
    \E d \in {x \in SUBSET AllFiles : Cardinality(x) <= MaxPresenceDiff} :
    \E chg \in {"DacMetadata.xml", "predeploy.sql", "Origin.xml", "model.xml",
                "extra1.txt", "none"} :
        Start([BaseDir EXCEPT !.files = fa],
              Changed([BaseDir EXCEPT !.files = (fa \ d) \cup (d \ fa)], chg))

WithModel(elements_a, elements_b) ==
    Start([BaseDir EXCEPT !.model = Doc(Header(<<>>), elements_a)],
          [BaseDir EXCEPT !.model = Doc(Header(<<>>), elements_b)])

\* Two elements of one key that differ in their properties.
PropSet == {Prop("p", "1"), Prop("p", "2"), Prop("p", NONE),
            PropElem("q", " 1 ")}

InitProps ==
    \E pa, pb \in SeqsUpTo(PropSet, MaxProps) :
        WithModel(<<Elem("T", "n", pa, <<>>, <<>>)>>,
                  <<Elem("T", "n", pb, <<>>, <<>>)>>)

\* Two elements of one key that differ in the entries of a relationship, or
\* in having it.
InlineX == Elem("X", NONE, <<Prop("p", "1")>>, <<>>, <<>>)
EntriesA == {Ref("a"), Ref("b"), Inline(InlineX)}
EntriesB == {Ref("a"), RefExt("a", "e"), Inline(InlineX), EmptyEntry}

RelsOf(entry_lists) ==
    {<<>>} \cup {<<Rel("Columns", es)>> : es \in entry_lists}

InitRels ==
    \E ra \in RelsOf(SeqsUpTo(EntriesA, MaxEntries)) :
    \E rb \in RelsOf(SeqsUpTo(EntriesB, MaxEntries - 1)) :
        WithModel(<<Elem("T", "n", <<>>, ra, <<>>)>>,
                  <<Elem("T", "n", <<>>, rb, <<>>)>>)

\* Two elements of one key that differ in their annotations; the properties
\* of an annotation carry a value.
AnnSet == {Ann("A", <<Prop("k", "1")>>),
           Ann("A", <<Prop("k", "1"), Prop("Disambiguator", "1")>>),
           Ann("A", <<Prop("Disambiguator", "2"), Prop("k", "1")>>),
           Ann("A", <<Prop("k", "2")>>),
           Ann("B", <<Prop("k", "1")>>)}

InitAnns ==
    \E la, lb \in SeqsUpTo(AnnSet, MaxAnns) :
        WithModel(<<Elem("T", "n", <<>>, <<>>, la)>>,
                  <<Elem("T", "n", <<>>, <<>>, lb)>>)

\* Two elements of one key whose annotations sit on the element and on inline
\* elements, one and two relationship entries deep.
WithInline(anns) ==
    Elem("T", "n", <<>>,
         <<Rel("r", <<Inline(Elem("X", NONE, <<>>,
               <<Rel("s", <<Inline(Elem("Y", NONE, <<>>, <<>>, anns))>>)>>,
               anns))>>)>>,
         anns)

InitInline ==
    \E la, lb \in SeqsUpTo(AnnSet, MaxAnns) :
        WithModel(<<WithInline(la)>>, <<WithInline(lb)>>)

\* One element, named or not, with any shape of the three relationships its
\* key is resolved from; the dotnet side holds it at another position and
\* with other properties.
EntryShapes(target) ==
    {<<>>, <<Ref(target)>>, <<Ref("")>>, <<Ref(NONE)>>,
     <<Inline(InlineX), Ref(target)>>, <<EmptyEntry, Ref(target)>>,
     <<Ref(target), Ref("u")>>}

RelShapes(name, target) ==
    {<<>>} \cup {<<Rel(name, es)>> : es \in EntryShapes(target)}
        \cup {<<Rel(name, <<>>), Rel(name, <<Ref(target)>>)>>}

KeyElements ==
    {Elem("T", name, <<>>, dt \o fc \o dc, <<>>) :
        name \in {NONE, "n"},
        dt \in RelShapes("DefiningTable", "t"),
        fc \in RelShapes("ForColumn", "c"),
        dc \in RelShapes("DefiningColumn", "d")}

InitKeys ==
    \E e \in KeyElements :
        WithModel(<<e>>, <<Elem0, [e EXCEPT !.props = <<Prop("p", "1")>>]>>)

\* Two lists of elements, with keys that repeat.
ElemSet == {Elem0, Elem1, Elem("T", "m", <<>>, <<>>, <<>>),
            Elem("U", NONE, <<>>, <<Rel("DefiningTable", <<Ref("t")>>)>>, <<>>)}

InitModels ==
    \E ea, eb \in SeqsUpTo(ElemSet, MaxElements) : WithModel(ea, eb)

\* Two headers, absent or with blocks whose (category, type) repeat.
BlockSet == {Block("X", "Y", <<Meta("a", "1")>>),
             Block("X", "Y", <<Meta("b", "2")>>),
             Block("X", "Y", <<Meta("a", "2"), Meta("b", "2")>>),
             Block("X", NONE, <<Meta("a", "1")>>)}

Headers == {NoHeader} \cup {Header(bs) : bs \in SeqsUpTo(BlockSet, MaxBlocks)}

InitHeaders ==
    \E ha, hb \in Headers :
        Start([BaseDir EXCEPT !.model = Doc(ha, <<Elem0>>)],
              [BaseDir EXCEPT !.model = Doc(hb, <<Elem0>>)])

\* Two simple XML files: any tree on the rust side; on the dotnet side the
\* same tree with siblings permuted at any level, or one of two other trees.
Leaf(tag) == Node(tag, <<>>, NONE, <<>>)

Mids ==
    {Node(tag, <<>>, NONE, ch) :
        tag \in {"a", "b"},
        ch \in {<<>>, <<Leaf("c")>>, <<Leaf("d")>>, <<Leaf("c"), Leaf("d")>>}}
    \cup {Node("a", << <<"k", "1">> >>, "1", <<>>),
          Node("{NS}a", << <<"k", "1">> >>, " 1 ", <<>>)}

Trees == {Node("root", <<>>, NONE, ch) : ch \in SeqsUpTo(Mids, MaxChildren)}

\* The orders of the elements of a sequence.
Perms(s) ==
    {[i \in 1..Len(s) |-> s[f[i]]] : f \in Permutations(1..Len(s))}

\* The trees obtained from a tree by permuting siblings at any level.
RECURSIVE TreePerms(_)
TreePerms(t) ==
    IF t.children = <<>> THEN {t}
    ELSE LET all == UNION {TreePerms(c) : c \in Range(t.children)}
         IN  {[t EXCEPT !.children = cs] :
                cs \in {x \in [1..Len(t.children) -> all] :
                          \E q \in Perms(t.children) :
                             \A i \in 1..Len(q) : x[i] \in TreePerms(q[i])}}

WithXml(ta, tb) ==
    Start([BaseDir EXCEPT !.xml["DacMetadata.xml"] = ta],
          [BaseDir EXCEPT !.xml["DacMetadata.xml"] = tb])

InitXml ==
    \E ta \in Trees :
    \E tb \in TreePerms(ta) \cup {Tree0, Tree1} : WithXml(ta, tb)

\* Text files whose lines differ in trailing blanks only, or in more.
LineSet == {"x", "x ", "y", " "}

InitText ==
    \E la, lb \in SeqsUpTo(LineSet, MaxLines) :
        Start([BaseDir EXCEPT !.text["predeploy.sql"] = la],
              [BaseDir EXCEPT !.text["predeploy.sql"] = lb])

\* The elements obtained from an element by reordering its properties, its
\* relationships, the entries of a relationship, its annotations and the
\* properties of an annotation, in the element and in its inline elements.
PermsOf(s, Variants(_)) ==
    {x \in [1..Len(s) -> UNION {Variants(s[i]) : i \in 1..Len(s)}] :
        \E q \in Perms(s) : \A i \in 1..Len(s) : x[i] \in Variants(q[i])}

RECURSIVE ElemPerms(_)
EntryPerms(entry) ==
    IF entry.kind = "inline"
    THEN {[entry EXCEPT !.elem = e] : e \in ElemPerms(entry.elem)}
    ELSE {entry}

RelPerms(rel) ==
    {[rel EXCEPT !.entries = es] : es \in PermsOf(rel.entries, EntryPerms)}

AnnPerms(ann) == {[ann EXCEPT !.props = ps] : ps \in Perms(ann.props)}

ElemPerms(elem) ==
    {[elem EXCEPT !.props = ps, !.rels = rs, !.anns = as] :
        ps \in Perms(elem.props),
        rs \in PermsOf(elem.rels, RelPerms),
        as \in PermsOf(elem.anns, AnnPerms)}

\* Two elements of one key that hold one inline element each, the same up to
\* the order of its parts at any level.
InlineY == Elem("Y", NONE, <<Prop("p", "1"), Prop("q", "2")>>, <<>>,
                <<Ann("A", <<Prop("k", "1"), Prop("m", "2")>>)>>)

OrderedElems ==
    {Elem("X", NONE, <<Prop("p", "1"), Prop("q", "2")>>,
          <<Rel("r", <<Ref("a"), Ref("b")>>), Rel("s", <<Inline(InlineY)>>)>>,
          <<Ann("A", <<Prop("k", "1")>>), Ann("B", <<Prop("k", "1")>>)>>),
     Elem("X", NONE, <<>>, <<Rel("r", <<Ref("a"), RefExt("a", "e")>>)>>,
          <<Ann("A", <<Prop("k", "1"), Prop("m", "2")>>),
            Ann("A", <<Prop("k", "2")>>)>>)}

WithOneInline(e) == Elem("T", "n", <<>>, <<Rel("r", <<Inline(e)>>)>>, <<>>)

InitFingerprints ==
    \E ea \in OrderedElems :
    \E eb \in ElemPerms(ea) :
        WithModel(<<WithOneInline(ea)>>, <<WithOneInline(eb)>>)

Init ==
    \/ InitPackages
    \/ InitXml
    \/ InitText
    \/ InitKeys
    \/ InitProps
    \/ InitRels
    \/ InitAnns
    \/ InitInline
    \/ InitModels
    \/ InitHeaders
    \/ InitFingerprints
    \/ InitArchives

Next ==
    \/ ResolveRust
    \/ ResolveDotnet
    \/ CompareKnownFiles
    \/ CheckUnexpectedFiles
    \/ CompareModel
    \/ AbortModel
    \/ Exit

Spec == Init /\ [][Next]_vars

(***************************************************************************)
(* Properties of a finished run.                                           *)
(***************************************************************************)
Done == pc = "done"

BothModels == Exists(dir_a, "model.xml") /\ Exists(dir_b, "model.xml")

\* Both documents hold one element, of the same type and name: the pair the
\* Element Differ is run on.
SinglePair ==
    /\ Done
    /\ BothModels
    /\ Len(dir_a.model.elements) = 1
    /\ Len(dir_b.model.elements) = 1
    /\ dir_a.model.elements[1].Name # NONE
    /\ dir_a.model.elements[1].Name = dir_b.model.elements[1].Name
    /\ dir_a.model.elements[1].Type = dir_b.model.elements[1].Type

PairA == dir_a.model.elements[1]

PairB == dir_b.model.elements[1]

\* The entries the Element Differ returned for the pair.
PairDiffs ==
    IF model_results.elements.differences = <<>> THEN <<>>
    ELSE model_results.elements.differences[1].diffs

PhaseEntries(phase) == SelectSeq(PairDiffs, LAMBDA d : d.phase = phase)

\* The positions of the entries of a phase that carry a name.
EntriesOf(phase, name) ==
    {i \in 1..Len(PhaseEntries(phase)) : PhaseEntries(phase)[i].name = name}

\* The last item of a sequence that satisfies a test.
LastIdx(s, Test(_)) ==
    CHOOSE i \in SelectIdx(s, Test) : \A j \in SelectIdx(s, Test) : j <= i

NoDifference ==
    /\ \A i \in 1..Len(file_results) : file_results[i][2] = "ok"
    /\ model_results.header.status = "ok"
    /\ model_results.elements.missing_in_rust = <<>>
    /\ model_results.elements.extra_in_rust = <<>>
    /\ model_results.elements.differences = <<>>

\* C1: a package compared against an identical copy of itself yields zero
\* differences (every recorded status is identical, the header is identical,
\* the missing, extra and differences lists are empty) and the run exits
\* with code 0.
C1_Reflexivity ==
    (Done /\ dir_a = dir_b) => (NoDifference /\ exit_code = 0)

\* An artifact other than Origin.xml differs or is on one side only, or the
\* header or the element comparison found a difference.
SomeArtifactDiffers ==
    \/ \E f \in AllFiles \ {"Origin.xml"} : Exists(dir_a, f) # Exists(dir_b, f)
    \/ \E i \in 1..Len(file_results) :
          /\ file_results[i][1] # "Origin.xml"
          /\ file_results[i][2] = "different"
    \/ model_results.header.status # "ok"
    \/ model_results.elements.missing_in_rust # <<>>
    \/ model_results.elements.extra_in_rust # <<>>
    \/ model_results.elements.differences # <<>>

\* C2: the run exits with code 1 if and only if an artifact other than
\* Origin.xml differs or is present on one side only, or the header status is
\* not identical, or the element comparison has a non-empty missing, extra or
\* differences list; it exits with code 0 in every other case.
C2_ExitCodeVerdict ==
    Done => /\ exit_code \in {0, 1}
            /\ exit_code = 1 <=> SomeArtifactDiffers

\* C3: a simple XML tree compared with a copy of itself whose siblings are
\* permuted, at any level, is reported identical.
C3_OrderIndependent ==
    (/\ Done
     /\ Exists(dir_a, "DacMetadata.xml") /\ Exists(dir_b, "DacMetadata.xml")
     /\ dir_b.xml["DacMetadata.xml"] \in TreePerms(dir_a.xml["DacMetadata.xml"]))
    => DictGet(file_results, "DacMetadata.xml", NONE) = "ok"

\* An element with the Disambiguator property of every annotation removed, on
\* the element and on the inline elements of its relationship entries.
RECURSIVE WithoutDisambiguator(_)
WithoutDisambiguatorIn(entry) ==
    IF entry.kind = "inline"
    THEN [entry EXCEPT !.elem = WithoutDisambiguator(entry.elem)]
    ELSE entry

WithoutDisambiguator(elem) ==
    [elem EXCEPT
        !.anns = Map(elem.anns, LAMBDA ann :
            [ann EXCEPT !.props =
                SelectSeq(ann.props, LAMBDA p : p.Name # "Disambiguator")]),
        !.rels = Map(elem.rels, LAMBDA rel :
            [rel EXCEPT !.entries = Map(rel.entries, WithoutDisambiguatorIn)])]

\* The inline elements of the relationship entries of an element, at any
\* depth, in document order.
RECURSIVE InlineElements(_)
InlineElementsIn(entry) ==
    IF entry.kind = "inline"
    THEN <<entry.elem>> \o InlineElements(entry.elem)
    ELSE <<>>

InlineElements(elem) ==
    Flat(Map(elem.rels, LAMBDA rel : Flat(Map(rel.entries, InlineElementsIn))))

\* C4: for two elements that are identical but for the value or the presence
\* of the Disambiguator property of their annotations, on the element or on
\* an inline element nested in a relationship entry, diff_element returns an
\* empty list and the fingerprints of the inline elements are equal.
C4_DisambiguatorIgnored ==
    (SinglePair /\ WithoutDisambiguator(PairA) = WithoutDisambiguator(PairB))
    => /\ PairDiffs = <<>>
       /\ Len(InlineElements(PairA)) = Len(InlineElements(PairB))
       /\ \A i \in 1..Len(InlineElements(PairA)) :
             inline_element_fingerprint(InlineElements(PairA)[i])
                 = inline_element_fingerprint(InlineElements(PairB)[i])

\* Two elements that differ in the Disambiguator of an annotation of the
\* element, and of an inline element, have been compared.
C4_Witness ==
    /\ SinglePair
    /\ WithoutDisambiguator(PairA) = WithoutDisambiguator(PairB)
    /\ PairA.anns # PairB.anns
    /\ InlineElements(PairA) # <<>>
    /\ \A i \in 1..Len(InlineElements(PairA)) :
          InlineElements(PairA)[i].anns # InlineElements(PairB)[i].anns
    /\ PairDiffs = <<>>

\* A relationship resolves: the first relationship of that name has a first
\* entry that is a reference with a target name.
Resolves(elem, rel_name) ==
    /\ \E r \in 1..Len(elem.rels) : elem.rels[r].Name = rel_name
    /\ elem.rels[FirstIdx(elem.rels, LAMBDA rel : rel.Name = rel_name)].entries
           # <<>>
    /\ Head(elem.rels[FirstIdx(elem.rels, LAMBDA rel : rel.Name = rel_name)]
                .entries).kind = "ref"
    /\ Head(elem.rels[FirstIdx(elem.rels, LAMBDA rel : rel.Name = rel_name)]
                .entries).Name \notin {NONE, ""}

Target(elem, rel_name) ==
    Head(elem.rels[FirstIdx(elem.rels, LAMBDA rel : rel.Name = rel_name)]
             .entries).Name

\* The key the priority of identity resolution gives an element.
PriorityKey(elem) ==
    IF elem.Name # NONE THEN <<elem.Type, elem.Name>>
    ELSE IF Resolves(elem, "DefiningTable") /\ Resolves(elem, "ForColumn")
    THEN <<elem.Type, "DefiningTable=" \o Target(elem, "DefiningTable")
                      \o ",ForColumn=" \o Target(elem, "ForColumn")>>
    ELSE IF Resolves(elem, "DefiningTable") /\ Resolves(elem, "DefiningColumn")
    THEN <<elem.Type, "DefiningTable=" \o Target(elem, "DefiningTable")
                      \o ",DefiningColumn=" \o Target(elem, "DefiningColumn")>>
    ELSE IF Resolves(elem, "DefiningTable")
    THEN <<elem.Type, "DefiningTable=" \o Target(elem, "DefiningTable")>>
    ELSE <<elem.Type>>

PriorityKeys(doc) == {PriorityKey(e) : e \in Range(doc.elements)}

ReportedKeys(key_list) == Range(key_list)

\* C5: every element gets the key of the fixed priority (name; DefiningTable
\* and ForColumn; DefiningTable and DefiningColumn; DefiningTable; the type
\* alone), whatever its position in the document: the keys the comparison
\* reports are those keys, and elements of one key meet in the comparison.
C5_IdentityResolution ==
    (Done /\ BothModels) =>
       /\ ReportedKeys(model_results.elements.extra_in_rust)
              = PriorityKeys(dir_a.model) \ PriorityKeys(dir_b.model)
       /\ ReportedKeys(model_results.elements.missing_in_rust)
              = PriorityKeys(dir_b.model) \ PriorityKeys(dir_a.model)
       /\ \A d \in Range(model_results.elements.differences) :
              d.key \in PriorityKeys(dir_a.model) \cap PriorityKeys(dir_b.model)
       /\ model_results.elements.total_rust
              = Cardinality(PriorityKeys(dir_a.model))
       /\ model_results.elements.total_dotnet
              = Cardinality(PriorityKeys(dir_b.model))

\* An unnamed element whose three relationships resolve has been compared
\* with a copy of itself that sits at another position and differs in its
\* properties.
C5_Witness ==
    /\ Done
    /\ BothModels
    /\ Len(dir_a.model.elements) = 1
    /\ Len(dir_b.model.elements) = 2
    /\ dir_a.model.elements[1].Name = NONE
    /\ Resolves(dir_a.model.elements[1], "DefiningTable")
    /\ Resolves(dir_a.model.elements[1], "ForColumn")
    /\ Resolves(dir_a.model.elements[1], "DefiningColumn")
    /\ dir_b.model.elements[2].rels = dir_a.model.elements[1].rels
    /\ Len(model_results.elements.differences) = 1
    /\ model_results.elements.differences[1].key
           = <<"T", "DefiningTable=t,ForColumn=c">>

\* The keys of a document, and the last element of a key in document order.
KeysOf(doc) == {element_key(e) : e \in Range(doc.elements)}

LastOf(doc, key) ==
    doc.elements[LastIdx(doc.elements, LAMBDA e : element_key(e) = key)]

\* The common keys whose last elements differ.
DifferingKeys ==
    {k \in KeysOf(dir_a.model) \cap KeysOf(dir_b.model) :
        diff_element(LastOf(dir_a.model, k), LastOf(dir_b.model, k)) # <<>>}

\* C6: with every key indexed to the last element that resolves to it,
\* missing is the keys of the baseline minus those of the candidate, extra
\* the keys of the candidate minus those of the baseline, differences holds
\* exactly the common keys whose Element Differ output is not empty (each
\* once, with that output); the three lists are disjoint; the totals are the
\* sizes of the indexes; duplicate keys produce warnings and the run ends.
C6_ModelDiffer ==
    (Done /\ BothModels) =>
       /\ Range(model_results.elements.missing_in_rust)
              = KeysOf(dir_b.model) \ KeysOf(dir_a.model)
       /\ Len(model_results.elements.missing_in_rust)
              = Cardinality(KeysOf(dir_b.model) \ KeysOf(dir_a.model))
       /\ Range(model_results.elements.extra_in_rust)
              = KeysOf(dir_a.model) \ KeysOf(dir_b.model)
       /\ Len(model_results.elements.extra_in_rust)
              = Cardinality(KeysOf(dir_a.model) \ KeysOf(dir_b.model))
       /\ {d.key : d \in Range(model_results.elements.differences)}
              = DifferingKeys
       /\ Len(model_results.elements.differences) = Cardinality(DifferingKeys)
       /\ \A d \in Range(model_results.elements.differences) :
              d.diffs = diff_element(LastOf(dir_a.model, d.key),
                                     LastOf(dir_b.model, d.key))
       /\ Range(model_results.elements.missing_in_rust)
              \cap Range(model_results.elements.extra_in_rust) = {}
       /\ model_results.elements.total_rust = Cardinality(KeysOf(dir_a.model))
       /\ model_results.elements.total_dotnet
              = Cardinality(KeysOf(dir_b.model))
       /\ Len(warnings.rust)
              = Len(dir_a.model.elements) - Cardinality(KeysOf(dir_a.model))
       /\ Len(warnings.dotnet)
              = Len(dir_b.model.elements) - Cardinality(KeysOf(dir_b.model))
       /\ exit_code \in {0, 1}

\* A document with a duplicate key has been compared, and the comparison
\* found a missing key and a common key whose last elements differ.
C6_Witness ==
    /\ Done
    /\ BothModels
    /\ warnings.rust # <<>>
    /\ model_results.elements.missing_in_rust # <<>>
    /\ model_results.elements.differences # <<>>
    /\ dir_a.model.elements[1] = dir_b.model.elements[1]

PropNames(elem) == {p.Name : p \in Range(elem.props)}

\* The value an element gives a property name: that of its last property of
\* the name.
PropertyValue(elem, name) ==
    PropValue(elem.props[LastIdx(elem.props, LAMBDA p : p.Name = name)])

\* C7: for two elements of one key, exactly one Property entry is emitted for
\* each property name whose presence or value differs between the sides and
\* none for the others; a name of the candidate only is tagged missing in
\* the baseline with the candidate value, a name of the baseline only is
\* tagged missing in the candidate, a name of both with different values is
\* tagged changed with both values.
C7_PropertyPhase ==
    SinglePair =>
       /\ \A d \in Range(PhaseEntries("Property")) :
              d.name \in PropNames(PairA) \cup PropNames(PairB)
       /\ \A n \in PropNames(PairA) \cup PropNames(PairB) :
              IF n \notin PropNames(PairB)
              THEN \E i \in 1..Len(PhaseEntries("Property")) :
                      /\ EntriesOf("Property", n) = {i}
                      /\ PhaseEntries("Property")[i].tag = "missing in dotnet"
                      /\ PhaseEntries("Property")[i].rust
                             = PropertyValue(PairA, n)
              ELSE IF n \notin PropNames(PairA)
              THEN \E i \in 1..Len(PhaseEntries("Property")) :
                      /\ EntriesOf("Property", n) = {i}
                      /\ PhaseEntries("Property")[i].tag = "missing in rust"
                      /\ PhaseEntries("Property")[i].dotnet
                             = PropertyValue(PairB, n)
              ELSE IF PropertyValue(PairA, n) # PropertyValue(PairB, n)
              THEN \E i \in 1..Len(PhaseEntries("Property")) :
                      /\ EntriesOf("Property", n) = {i}
                      /\ PhaseEntries("Property")[i].tag = "changed"
                      /\ PhaseEntries("Property")[i].rust
                             = PropertyValue(PairA, n)
                      /\ PhaseEntries("Property")[i].dotnet
                             = PropertyValue(PairB, n)
              ELSE EntriesOf("Property", n) = {}

RelNames(elem) == {r.Name : r \in Range(elem.rels)}

\* The entries an element gives a relationship name (those of its last
\* relationship of the name), and the set of their string forms.
EntriesNamed(elem, name) ==
    RelEntries(elem.rels[LastIdx(elem.rels, LAMBDA r : r.Name = name)])

FormsNamed(elem, name) == EntryStrs(EntriesNamed(elem, name))

\* C8: for every relationship name of one side only, exactly one count-only
\* Relationship entry is emitted, whatever the number of entries, zero
\* included; for a name of both sides an entry is emitted if and only if the
\* sets of the string forms of the entries differ, and it carries the number
\* of forms exclusive to each side.
C8_RelationshipPhase ==
    SinglePair =>
       \A n \in RelNames(PairA) \cup RelNames(PairB) :
          IF n \notin RelNames(PairB)
          THEN \E i \in 1..Len(PhaseEntries("Relationship")) :
                  /\ EntriesOf("Relationship", n) = {i}
                  /\ PhaseEntries("Relationship")[i].tag = "missing in dotnet"
                  /\ PhaseEntries("Relationship")[i].n_rust
                         = Len(EntriesNamed(PairA, n))
          ELSE IF n \notin RelNames(PairA)
          THEN \E i \in 1..Len(PhaseEntries("Relationship")) :
                  /\ EntriesOf("Relationship", n) = {i}
                  /\ PhaseEntries("Relationship")[i].tag = "missing in rust"
                  /\ PhaseEntries("Relationship")[i].n_dotnet
                         = Len(EntriesNamed(PairB, n))
          ELSE IF FormsNamed(PairA, n) # FormsNamed(PairB, n)
          THEN \E i \in 1..Len(PhaseEntries("Relationship")) :
                  /\ EntriesOf("Relationship", n) = {i}
                  /\ PhaseEntries("Relationship")[i].tag = "entries"
                  /\ PhaseEntries("Relationship")[i].n_rust
                         = Cardinality(FormsNamed(PairA, n)
                                           \ FormsNamed(PairB, n))
                  /\ PhaseEntries("Relationship")[i].n_dotnet
                         = Cardinality(FormsNamed(PairB, n)
                                           \ FormsNamed(PairA, n))
          ELSE EntriesOf("Relationship", n) = {}

\* The annotations of a type in a sorted annotation list.
OfType(anns, ann_type) == SelectSeq(anns, LAMBDA a : a[1] = ann_type)

AnnTypes(elem) == {a[1] : a \in Range(get_annotations(elem))}

\* C9: whenever the sorted annotation lists (Disambiguator stripped) of the
\* two elements are not equal, an Annotation entry is emitted for exactly the
\* types whose sublists differ, with the count note exactly when the sides
\* hold a different number of annotations of the type; when the lists are
\* equal no Annotation entry is emitted.
C9_AnnotationPhase ==
    SinglePair =>
       IF get_annotations(PairA) = get_annotations(PairB)
       THEN PhaseEntries("Annotation") = <<>>
       ELSE \A t \in AnnTypes(PairA) \cup AnnTypes(PairB) :
               IF OfType(get_annotations(PairA), t)
                      # OfType(get_annotations(PairB), t)
               THEN \E i \in 1..Len(PhaseEntries("Annotation")) :
                       /\ EntriesOf("Annotation", t) = {i}
                       /\ PhaseEntries("Annotation")[i].counts
                              = (Len(OfType(get_annotations(PairA), t))
                                    # Len(OfType(get_annotations(PairB), t)))
               ELSE EntriesOf("Annotation", t) = {}

\* The blocks of a header: (category, type) with the name-value entries of
\* the block; an absent header has none.
MetaEntries(block) ==
    {<<AttrOr(block.metas[i].Name, ""), AttrOr(block.metas[i].Value, "")>> :
        i \in {j \in 1..Len(block.metas) :
                 \A k \in (j + 1)..Len(block.metas) :
                    block.metas[k].Name # block.metas[j].Name}}

BlocksOf(header) ==
    IF ~header.present THEN {}
    ELSE {<<AttrOr(b.Category, ""), AttrOr(b.Type, ""), MetaEntries(b)>> :
            b \in Range(header.blocks)}

BlockKeys(header) == {<<b[1], b[2]>> : b \in BlocksOf(header)}

HeaderLinesOf(key) ==
    SelectSeq(model_results.header.lines, LAMBDA l : l.key = key)

\* C10: the header status is identical if and only if the two headers have
\* the same blocks with the same metadata entries, also when a header holds
\* several blocks of one (category, type) or is absent on one side; a block
\* of one side only is reported by one line, with no entry-level detail.
C10_HeaderDiffer ==
    (Done /\ BothModels) =>
       /\ model_results.header.status = "ok"
              <=> BlocksOf(dir_a.model.header) = BlocksOf(dir_b.model.header)
       /\ \A key \in BlockKeys(dir_a.model.header)
                        \ BlockKeys(dir_b.model.header) :
              /\ Len(HeaderLinesOf(key)) = 1
              /\ HeaderLinesOf(key)[1].tag = "missing in dotnet"
       /\ \A key \in BlockKeys(dir_b.model.header)
                        \ BlockKeys(dir_a.model.header) :
              /\ Len(HeaderLinesOf(key)) = 1
              /\ HeaderLinesOf(key)[1].tag = "missing in rust"

\* The element holds one relationship with one entry, an inline element.
OneInline(elem) ==
    /\ Len(elem.rels) = 1
    /\ Len(elem.rels[1].entries) = 1
    /\ elem.rels[1].entries[1].kind = "inline"

InlineOf(elem) == elem.rels[1].entries[1].elem

\* C11: two inline elements that are the same up to the order of their
\* properties, relationships, entries of a relationship, annotations and
\* properties of an annotation, at any nesting level, get the same
\* fingerprint, and the entries holding them cause no Relationship entry.
C11_FingerprintOrderIndependent ==
    (/\ SinglePair
     /\ OneInline(PairA) /\ OneInline(PairB)
     /\ PairA.rels[1].Name = PairB.rels[1].Name
     /\ InlineOf(PairB) \in ElemPerms(InlineOf(PairA)))
    => /\ inline_element_fingerprint(InlineOf(PairA))
              = inline_element_fingerprint(InlineOf(PairB))
       /\ PhaseEntries("Relationship") = <<>>

(***************************************************************************)
(* The comparison directories and the temporary workspace.                 *)
(***************************************************************************)
Resolved == pc \notin {"resolve_rust", "resolve_dotnet", "aborted"}

\* Two archives that are two files.
TwoArchives ==
    /\ IsZip(rust_dacpac)
    /\ IsZip(dotnet_dacpac)
    /\ rust_dacpac.path # dotnet_dacpac.path

Ended == pc \in {"done", "aborted"}

\* C12: two archives, also two of one file name in different directories,
\* are resolved to two distinct directories, each holding the content of
\* its own archive; and the temporary workspace is gone when the run has
\* ended, with exit code 0 or 1 or by an abort on malformed input.
C12_OwnDirectories ==
    /\ (Resolved /\ TwoArchives) =>
           /\ path_a # path_b
           /\ dir_a = rust_dacpac.content
           /\ dir_b = dotnet_dacpac.content
    /\ Ended => ~tmpdir.exists

====
